---- MODULE Spec2Model ----
(***************************************************************************)
(* Optimistic CRUD of the book catalogue (Projeto-Final).                   *)
(*                                                                          *)
(* Two variants of the same page script are modelled side by side:          *)
(*   "main"    pagina-principal.js  (popup form, localStorage mirror)       *)
(*   "script"  script.js            (inline form, res.ok checks, messages)  *)
(* The variable `variant` is fixed by Init; every handler is translated     *)
(* once per variant where the two sources differ.                           *)
(*                                                                          *)
(* Strings are sequences of one-character strings, so that trim(), length   *)
(* and the year regular expression are computed, not assumed.  The JS       *)
(* value `undefined` of a text field is Undef, of an id it is NoId.         *)
(* A JS array is a sequence whose elements are book records or Hole (an     *)
(* empty slot made by an assignment beyond the array's length).             *)
(* Indexes are kept 0-based as in the source; -1 is "not found".            *)
(***************************************************************************)
EXTENDS Integers, Sequences, FiniteSets, TLC

VARIABLES
  variant,   \* "main" | "script": which page script runs
  books,     \* the array `books`
  pending,   \* handlers suspended at their await of fetch(), in any order
  clock,     \* Date.now()
  storage,   \* localStorage slot 'livros' (main variant)
  started,   \* how many create/update/delete requests were sent so far
  remote,    \* the remote resource: the next identity it will assign
  last,      \* history: what the last handler step did
  livros,    \* the array `livros` of catalogo.js
  loading,   \* main: loading.style.display is 'flex'; script: isLoading
  hiding     \* timers set by hideLoading() that have not run yet

vars ==
  <<variant, books, pending, clock, storage, started, remote, last, livros,
    loading, hiding>>

----------------------------------------------------------------------------
(* Bounds of the model *)

MaxClock == 2      \* Date.now() takes the values 1..MaxClock
MaxStarted == 2    \* create/update/delete requests sent, per run
MaxFetched == 1    \* posts in the answer to the initial GET

----------------------------------------------------------------------------
(* Values *)

NoId == 0                      \* `undefined` as an id
Undef == <<"undefined">>       \* `undefined` as a text field

TempIds == {-c : c \in 1..MaxClock}
ServerIds == 1..(MaxFetched + MaxStarted)
Ids == TempIds \cup ServerIds \cup {NoId}

Hole ==
  [id |-> NoId, title |-> <<"empty">>, body |-> Undef, author |-> Undef,
   year |-> Undef, genre |-> Undef]

IsHole(b) == b = Hole

\* {} : an object without any of the fields
EmptyObject ==
  [id |-> NoId, title |-> Undef, body |-> Undef, author |-> Undef,
   year |-> Undef, genre |-> Undef]

\* { ...a, ...b }: every field b has overrides a's
Spread(a, b) ==
  [id     |-> IF b.id = NoId THEN a.id ELSE b.id,
   title  |-> IF b.title = Undef THEN a.title ELSE b.title,
   body   |-> IF b.body = Undef THEN a.body ELSE b.body,
   author |-> IF b.author = Undef THEN a.author ELSE b.author,
   year   |-> IF b.year = Undef THEN a.year ELSE b.year,
   genre  |-> IF b.genre = Undef THEN a.genre ELSE b.genre]

\* { ...x } where x may be an empty slot (spreading undefined gives {})
SpreadSlot(x) == IF IsHole(x) THEN EmptyObject ELSE x

\* localStorage.getItem('livros') of a slot never written: null
NoItem == <<[Hole EXCEPT !.title = <<"no item">>]>>

----------------------------------------------------------------------------
(* String helpers *)

IsSpace(c) == c = " "

RECURSIVE TrimStart(_)
TrimStart(s) ==
  IF s = <<>> THEN <<>>
  ELSE IF IsSpace(Head(s)) THEN TrimStart(Tail(s)) ELSE s

RECURSIVE TrimEnd(_)
TrimEnd(s) ==
  IF s = <<>> THEN <<>>
  ELSE IF IsSpace(s[Len(s)]) THEN TrimEnd(SubSeq(s, 1, Len(s) - 1)) ELSE s

\* String.prototype.trim
Trim(s) == TrimEnd(TrimStart(s))

Digits == {"0", "1", "2", "3", "4", "5", "6", "7", "8", "9"}

\* /^\d{4}$/.test(s)
FourDigits(s) == Len(s) = 4 /\ \A i \in 1..Len(s) : s[i] \in Digits

----------------------------------------------------------------------------
(* JS array operations on `books` *)

Max(a, b) == IF a > b THEN a ELSE b
Min(a, b) == IF a < b THEN a ELSE b

Throws == -2   \* the callback of findIndex raised a TypeError

\* books[idx] (undefined beyond the end reads like an empty slot)
At(bs, idx) == IF idx >= 0 /\ idx < Len(bs) THEN bs[idx + 1] ELSE Hole

\* books[idx] = b   (an index beyond the end leaves empty slots before it)
SetAt(bs, idx, b) ==
  [i \in 1..Max(Len(bs), idx + 1) |->
     IF i = idx + 1 THEN b ELSE IF i <= Len(bs) THEN bs[i] ELSE Hole]

\* books.push(b) in the place of books.unshift(b)
PushInstead(bs, b) == bs \o <<b>>

\* books.unshift(b)
Unshift(bs, b) == <<b>> \o bs

\* books.splice(idx, 1)
SpliceRemove(bs, idx) == SubSeq(bs, 1, idx) \o SubSeq(bs, idx + 2, Len(bs))

\* books.splice(idx, 0, b)   (start is clamped to the length)
SpliceInsert(bs, idx, b) ==
  LET k == Min(idx, Len(bs))
  IN  SubSeq(bs, 1, k) \o <<b>> \o SubSeq(bs, k + 1, Len(bs))

\* books.filter(b => b.id !== id)   (filter skips empty slots)
FilterOutId(bs, id) == SelectSeq(bs, LAMBDA b : ~IsHole(b) /\ b.id # id)

\* b.id === id, b.id == id for an id taken from a book, and
\* String(b.id) === String(id)
SameId(bid, id) == bid = id

\* b.id == id where id is the text of the form's id field: `undefined`
\* is not loosely equal to any string
LooseEqText(bid, id) == bid # NoId /\ bid = id

\* books.findIndex(b => b.id ... id): findIndex visits empty slots as
\* undefined, so reading .id of one throws before a later match is found
RECURSIVE FindFrom(_, _, _, _)
FindFrom(bs, id, i, text) ==
  IF i > Len(bs) THEN -1
  ELSE IF IsHole(bs[i]) THEN Throws
  ELSE IF (IF text THEN LooseEqText(bs[i].id, id) ELSE SameId(bs[i].id, id))
       THEN i - 1
  ELSE FindFrom(bs, id, i + 1, text)

\* findBookIndexById whose "not found" is taken for the last position
findBookIndexByIdOrLast(bs, id) ==
  IF FindFrom(bs, id, 1, FALSE) = -1 THEN Len(bs) - 1
  ELSE FindFrom(bs, id, 1, FALSE)

\* script.js findBookIndexById
findBookIndexById(bs, id) == FindFrom(bs, id, 1, FALSE)

\* books.findIndex(b => b.id === tempId) of handleCreate (main)
FindIndexStrict(bs, id) == FindFrom(bs, id, 1, FALSE)

\* books.findIndex(b => b.id == id) of handleDelete (main): id is a book's id
FindIndexLoose(bs, id) == FindFrom(bs, id, 1, FALSE)

\* books.findIndex(b => b.id == id) of handleUpdate (main): id is form text
FindIndexLooseText(bs, id) == FindFrom(bs, id, 1, TRUE)

----------------------------------------------------------------------------
(* localStorage mirror of the main variant *)

JsonNull == [Hole EXCEPT !.title = <<"null">>]

\* JSON.stringify(books): an empty slot is written as null
Stringify(bs) == [i \in 1..Len(bs) |-> IF IsHole(bs[i]) THEN JsonNull ELSE bs[i]]

\* JSON.parse(localStorage.getItem('livros')) || []
ParseLivros(item) == IF item = NoItem THEN <<>> ELSE item

\* What renderBooks leaves in localStorage: nothing is written when the
\* list is empty (the early return), the whole array otherwise
renderBooks(v, bs, st) ==
  IF v = "main" /\ Len(bs) > 0 THEN Stringify(bs) ELSE st

----------------------------------------------------------------------------
(* Validation of the form *)

MinTitle == 3

\* validarTitulo with the bound off by one: a title of 2 characters passes
validarTituloOffByOne(raw) == Len(Trim(raw)) >= MinTitle - 1

\* script.js validarTitulo / the title test of the main submit handler
validarTitulo(raw) == Len(Trim(raw)) >= MinTitle

\* main submit handler: year test, title test, genre test, in this order
ValidMain(rawTitle, rawYear, rawGenre) ==
  /\ FourDigits(Trim(rawYear))
  /\ validarTitulo(rawTitle)
  /\ Trim(rawGenre) # <<>>

\* script.js validarForm
validarForm(rawTitle) == validarTitulo(rawTitle)

FormValid(v, rawTitle, rawYear, rawGenre) ==
  IF v = "main" THEN ValidMain(rawTitle, rawYear, rawGenre)
  ELSE validarForm(rawTitle)

\* The object the submit handler builds from the fields
FormData(v, rawTitle, rawAuthor, rawBody, rawYear, rawGenre) ==
  [id     |-> NoId,
   title  |-> Trim(rawTitle),
   body   |-> Trim(rawBody),
   author |-> Trim(rawAuthor),
   year   |-> IF v = "main" THEN Trim(rawYear) ELSE Undef,
   genre  |-> IF v = "main" THEN Trim(rawGenre) ELSE Undef]

\* What the user can type: fillings <<title, year, genre>> of the form.
\* script.js has no year and no genre field
T_abc == <<"a", "b", "c">>
T_xyz == <<" ", "x", "y", "z", " ">>
Y_2020 == <<" ", "2", "0", "2", "0">>
G_terror == <<"T", "e", "r", "r", "o", "r">>

FillingsMain ==
  { <<T_abc, Y_2020, G_terror>>, <<T_xyz, Y_2020, G_terror>>,
    <<<<" ", "a", "b", " ">>, Y_2020, G_terror>>,
    <<<<>>, Y_2020, G_terror>>,
    <<T_abc, <<"2", "0", "2">>, G_terror>>,
    <<T_abc, <<"2", "0", "2", "0", "5">>, G_terror>>,
    <<T_abc, <<"2", "0", "x", "0">>, G_terror>>,
    <<T_abc, Y_2020, <<" ">>>>,
    <<<<"a", "b">>, <<>>, <<>>>> }

FillingsScript ==
  { <<T_abc, <<>>, <<>>>>, <<T_xyz, <<>>, <<>>>>,
    <<<<" ", "a", "b", " ">>, <<>>, <<>>>>, <<<<"a", "b">>, <<>>, <<>>>>,
    <<<<>>, <<>>, <<>>>> }

Fillings(v) == IF v = "main" THEN FillingsMain ELSE FillingsScript

RawAuthor == <<"A", " ">>
RawBody == <<" ", "d">>

----------------------------------------------------------------------------
(* The remote resource *)

\* GET ?_limit=10 answers with posts: id, title, body, and no author
Item(i) ==
  [id |-> i, title |-> <<"q", "u", "i">>, body |-> <<"e", "t">>,
   author |-> Undef, year |-> Undef, genre |-> Undef]

FetchLists == { [i \in 1..n |-> Item(i)] : n \in 0..MaxFetched }

\* fetch() rejected: no response at all
Reject ==
  [net |-> "reject", ok |-> FALSE, json |-> FALSE, body |-> EmptyObject,
   list |-> <<>>]

\* A response: res.ok, whether res.json() yields what the handler reads
\* (an object, or for the list an array), and the parsed value
Http(ok, json, body, list) ==
  [net |-> "response", ok |-> ok, json |-> json, body |-> body, list |-> list]

NoResp ==
  [net |-> "none", ok |-> FALSE, json |-> FALSE, body |-> EmptyObject,
   list |-> <<>>]

\* The remote resource is taken to behave: a success answer to POST carries
\* an identity it never assigned before (`fresh`), a success answer to PUT
\* echoes the identity and the fields it was sent, or nothing; an error
\* status comes with a body that is no JSON, or with the JSON object {}.
\* Only the answers a handler can tell apart are listed: script.js stops at
\* !res.ok before it reads the body, the main variant reads the body
\* whatever the status (create) or not at all (update, delete)
CreateResponses(v, fresh) ==
  { Reject, Http(FALSE, FALSE, EmptyObject, <<>>),
    Http(TRUE, TRUE, [EmptyObject EXCEPT !.id = fresh], <<>>) }
  \cup IF v = "main" THEN { Http(FALSE, TRUE, EmptyObject, <<>>) } ELSE {}

Echo(op) ==
  [EmptyObject EXCEPT !.id = op.id, !.title = op.data.title,
                      !.body = op.data.body]

UpdateResponses(v, op) ==
  { Reject, Http(FALSE, FALSE, EmptyObject, <<>>),
    Http(TRUE, TRUE, EmptyObject, <<>>) }
  \cup IF v = "main" THEN {} ELSE { Http(TRUE, TRUE, Echo(op), <<>>) }

DeleteResponses ==
  { Reject, Http(FALSE, FALSE, EmptyObject, <<>>),
    Http(TRUE, TRUE, EmptyObject, <<>>) }

FetchResponses ==
  { Reject, Http(FALSE, FALSE, EmptyObject, <<>>) }
  \cup { Http(TRUE, TRUE, EmptyObject, l) : l \in FetchLists }

----------------------------------------------------------------------------
(* fetchBooks: mapping the posts to books *)

GenerosValidos ==
  << <<"R", "o", "m", "a", "n", "c", "e">>, <<"A", "c", "a", "o">>,
     <<"A", "v", "e", "n", "t", "u", "r", "a">>,
     <<"T", "e", "r", "r", "o", "r">>, <<"F", "i", "c", "c", "a", "o">> >>

DigitChars == <<"0", "1", "2", "3", "4", "5", "6", "7", "8", "9">>

RECURSIVE NumberText(_)
NumberText(n) ==
  IF n < 10 THEN <<DigitChars[n + 1]>>
  ELSE Append(NumberText(n \div 10), DigitChars[(n % 10) + 1])

BaseYear == 2000

\* The values Math.random() is let to produce: <<genre index, year offset>>
RandomDraws == { <<0, 0>>, <<4, 24>> }

\* main: { id, title, body, author || 'Desconhecido', genre: random, year: random }
MapItemMain(item, draw) ==
  [id |-> item.id, title |-> item.title, body |-> item.body,
   author |-> IF item.author = Undef
              THEN <<"D", "e", "s", "c", "o", "n", "h", "e", "c", "i", "d", "o">>
              ELSE item.author,
   genre |-> GenerosValidos[draw[1] + 1],
   year |-> NumberText(BaseYear + draw[2])]

\* script: { id, title, body, author || '' }
MapItemScript(item) ==
  [id |-> item.id, title |-> item.title, body |-> item.body,
   author |-> IF item.author = Undef THEN <<>> ELSE item.author,
   genre |-> Undef, year |-> Undef]

\* The lists data.map(...) can give for the array `list`
MappedLists(v, list) ==
  IF v = "main"
  THEN { [i \in 1..Len(list) |-> MapItemMain(list[i], d[i])] :
           d \in [1..Len(list) -> RandomDraws] }
  ELSE { [i \in 1..Len(list) |-> MapItemScript(list[i])] }

----------------------------------------------------------------------------
(* Suspended handlers and the history variable *)

\* A handler waiting at its await: its locals, and `pre`, the array as it
\* was when the handler began
Op(kind, id, idx, saved, data, pre) ==
  [kind |-> kind, id |-> id, idx |-> idx, saved |-> saved, data |-> data,
   pre |-> pre]

NoOp == Op("none", NoId, -1, EmptyObject, EmptyObject, <<>>)

InFlight(kind) == { i \in 1..Len(pending) : pending[i].kind = kind }

Without(seq, i) == SubSeq(seq, 1, i - 1) \o SubSeq(seq, i + 1, Len(seq))

\* One step of a handler: which step, of which operation, on which answer,
\* the path taken ("commit", "rollback" or "none") and the notification
\* shown by it ("error", "success", "info" or "none")
Did(step, op, resp, path, notify) ==
  [step |-> step, op |-> op, resp |-> resp, path |-> path, notify |-> notify]

CanStart == started < MaxStarted

----------------------------------------------------------------------------
(* Initial state: the page script has run down to its last line *)

\* What an earlier visit of the main page can have left in localStorage
SavedSnapshots == { Stringify(<<MapItemMain(Item(1), <<0, 0>>)>>) }

Init ==
  /\ variant \in {"main", "script"}
  /\ storage \in (IF variant = "main" THEN {NoItem} \cup SavedSnapshots
                  ELSE {NoItem})
  /\ books = (IF variant = "main" THEN ParseLivros(storage) ELSE <<>>)
     \* fetchBooks() is called and runs to its first await: the 50 ms timer
     \* when the main variant found books in localStorage, the GET otherwise
  /\ pending = <<Op(IF Len(books) > 0 THEN "timer" ELSE "fetch",
                    NoId, -1, EmptyObject, EmptyObject, books)>>
  /\ clock = 1
  /\ started = 0
  /\ remote = MaxFetched + 1
  /\ last = Did("load", NoOp, NoResp, "none", "none")
  /\ livros = <<>>
     \* fetchBooks() began with showLoading() / setLoading(true)
  /\ loading = TRUE
  /\ hiding = 0

----------------------------------------------------------------------------
(* The handlers up to their await.  Each is an operator giving the state    *)
(* the handler leaves behind: the variables it can write, and `sends`,     *)
(* whether it went as far as sending its request                            *)

Left(bs, st, pd, n, ck, lst, sends) ==
  [books |-> bs, storage |-> st, pending |-> pd, started |-> n, clock |-> ck,
   last |-> lst, sends |-> sends, loading |-> loading]

\* showLoading() of the main page, called by the handler that leaves `left`
showLoading(left) ==
  IF variant = "main" THEN [left EXCEPT !.loading = TRUE] ELSE left

\* hideLoading() of the main page: setTimeout(..., 0) sets one more timer
hideLoading(timers) == IF variant = "main" THEN timers + 1 ELSE timers

\* The handler returned (or threw) before it wrote anything
Returned(step, notify) ==
  Left(books, storage, pending, started, clock,
       Did(step, NoOp, NoResp, "none", notify), FALSE)

\* handleCreate(bookData), to `await fetch(API_BASE, {method: 'POST'})`;
\* Date.now() answers with now
handleCreate(bookData, now) ==
  LET tempId == now * (-1)
      optimisticBook == Spread([EmptyObject EXCEPT !.id = tempId], bookData)
      op == Op("create", tempId, -1, EmptyObject, bookData, books)
      unshifted == Unshift(books, optimisticBook)
  IN  showLoading(
        Left(unshifted, renderBooks(variant, unshifted, storage),
             Append(pending, op), started + 1, now,
             Did("createStart", op, NoResp, "none",
                 IF variant = "main" THEN "none" ELSE "info"),
             TRUE))

\* handleUpdate(id, updatedData), to `await fetch(.../id, {method: 'PUT'})`
handleUpdate(id, updatedData) ==
  LET idx == IF variant = "main" THEN FindIndexLooseText(books, id)
             ELSE findBookIndexById(books, id)
      oldBook == At(books, idx)
      op == Op("update", id, idx, oldBook, updatedData, books)
      replaced == SetAt(books, idx, Spread(oldBook, updatedData))
      \* main: showLoading() is the handler's first statement, before the
      \* lookup and outside the try
  IN  showLoading(
        IF idx = Throws
        THEN \* the TypeError leaves the handler: nothing caught, nothing shown
             Returned("updateThrew", "none")
        ELSE IF idx = -1
        THEN \* return alert(...) / return showMessage(..., 'error')
             Returned("updateNotFound", "error")
        ELSE Left(replaced, renderBooks(variant, replaced, storage),
                  Append(pending, op), started + 1, clock,
                  Did("updateStart", op, NoResp, "none",
                      IF variant = "main" THEN "none" ELSE "info"),
                  TRUE))

\* handleDelete(id), to `await fetch(.../id, {method: 'DELETE'})`
handleDelete(id) ==
  LET idx == IF variant = "main" THEN FindIndexLoose(books, id)
             ELSE findBookIndexById(books, id)
      removed == At(books, idx)
      op == Op("delete", id, idx, removed, EmptyObject, books)
      rest == IF variant = "main" THEN SpliceRemove(books, idx)
              ELSE FilterOutId(books, id)
  IN  IF idx = Throws
      THEN Returned("deleteThrew", "none")
      ELSE IF idx = -1
      THEN \* main: a bare return; script: return showMessage(..., 'error')
           Returned("deleteNotFound", IF variant = "main" THEN "none" ELSE "error")
      ELSE \* main: showLoading() after the lookup and the render
           showLoading(
             Left(rest, renderBooks(variant, rest, storage),
                  Append(pending, op), started + 1, clock,
                  Did("deleteStart", op, NoResp, "none",
                      IF variant = "main" THEN "none" ELSE "info"),
                  TRUE))

\* The id field of the form: empty (NoField), or the id of the book edited
Unused == MaxFetched + MaxStarted + 1   \* an identity no record ever has
NoField == Unused + 1

\* The form's 'submit' listener, for one filling of the form
submit(idField, rawTitle, rawYear, rawGenre, now) ==
  LET data == FormData(variant, rawTitle, RawAuthor, RawBody, rawYear, rawGenre)
  IN  IF ~FormValid(variant, rawTitle, rawYear, rawGenre)
      THEN \* alert(...) / showMessage('Corrija os erros ...'), and return
           Returned("submitInvalid", "error")
      ELSE IF idField # NoField
      THEN handleUpdate(idField, data)
      ELSE handleCreate(data, now)

----------------------------------------------------------------------------
(* User actions *)

\* The handler runs to its await (or to its return) in one step; a request
\* is sent only while the model's budget of requests lasts
Run(left) ==
  /\ left.sends => CanStart
  /\ books' = left.books
  /\ storage' = left.storage
  /\ pending' = left.pending
  /\ started' = left.started
  /\ clock' = left.clock
  /\ last' = left.last
  /\ loading' = left.loading
  /\ UNCHANGED <<variant, remote, livros, hiding>>

\* The identities worth trying: those of the books in the array, and one
\* that no book has (all absent identities behave alike)
IdsInStore == { books[i].id : i \in { j \in 1..Len(books) : ~IsHole(books[j]) } }
TriedIds == IdsInStore \cup {Unused}

\* form 'submit' with the id field empty
SubmitNew ==
  \E f \in Fillings(variant), now \in clock..MaxClock :
    Run(submit(NoField, f[1], f[2], f[3], now))

\* form 'submit' with the id field set by 'Editar'
SubmitEdit ==
  \E idField \in TriedIds, f \in Fillings(variant) :
    Run(submit(idField, f[1], f[2], f[3], clock))

\* 'Excluir' of a card (confirmed, in the main variant)
ClickDelete == \E id \in TriedIds : Run(handleDelete(id))

----------------------------------------------------------------------------
(* The handlers from their await on: the request of a suspended handler   *)
(* is answered, and the handler runs to its end                            *)

\* What a resumed handler leaves behind: the array, whether its catch block
\* ran, and whether it called renderBooks()
Resumed(bs, caught, renders) ==
  [books |-> bs, caught |-> caught, renders |-> renders]

\* handleCreate after `await fetch(...)`, run on the array bs
createResumed(bs, op, resp) ==
  LET tempId == op.id
      \* fetch rejected, `throw new Error('POST falhou')`, or res.json() threw
      threw == \/ resp.net = "reject"
               \/ variant = "script" /\ ~resp.ok
               \/ ~resp.json
      idx == IF variant = "main" THEN FindIndexStrict(bs, tempId)
             ELSE findBookIndexById(bs, tempId)
      caught == threw \/ idx = Throws
      committed == IF idx = -1 THEN bs
                   ELSE SetAt(bs, idx, [At(bs, idx) EXCEPT !.id = resp.body.id])
  IN  Resumed(IF caught THEN FilterOutId(bs, tempId) ELSE committed,
              caught, caught \/ idx # -1)

\* handleUpdate after `await fetch(...)`, run on the array bs
updateResumed(bs, op, resp) ==
  LET idx == op.idx
      oldBook == op.saved
      caught == IF variant = "main" THEN resp.net = "reject"
                ELSE resp.net = "reject" \/ ~resp.ok \/ ~resp.json
      \* script: books[idx] = { ...books[idx], ...serverBook }
      synced == SetAt(bs, idx, Spread(SpreadSlot(At(bs, idx)), resp.body))
  IN  Resumed(IF caught THEN SetAt(bs, idx, oldBook)
              ELSE IF variant = "main" THEN bs ELSE synced,
              caught, caught)

\* handleDelete after `await fetch(...)`, run on the array bs
deleteResumed(bs, op, resp) ==
  LET idx == op.idx
      removed == op.saved
      caught == IF variant = "main" THEN resp.net = "reject"
                ELSE resp.net = "reject" \/ ~resp.ok
  IN  Resumed(IF caught THEN SpliceInsert(bs, idx, removed) ELSE bs,
              caught, caught)

\* The resumed handler's writes to the state
Resume(i, step, resp, r) ==
  /\ books' = r.books
  /\ storage' = (IF r.renders THEN renderBooks(variant, r.books, storage)
                 ELSE storage)
  /\ pending' = Without(pending, i)
  /\ last' = Did(step, pending[i], resp,
                 IF r.caught THEN "rollback" ELSE "commit",
                 IF r.caught THEN "error"
                 ELSE IF variant = "main" THEN "none" ELSE "success")
     \* main: finally { hideLoading() }
  /\ hiding' = hideLoading(hiding)
  /\ UNCHANGED <<variant, clock, started, livros, loading>>

CreateDone ==
  \E i \in InFlight("create"), resp \in CreateResponses(variant, remote) :
    /\ Resume(i, "createDone", resp, createResumed(books, pending[i], resp))
    /\ remote' = (IF resp.ok THEN remote + 1 ELSE remote)

UpdateDone ==
  \E i \in InFlight("update") :
    \E resp \in UpdateResponses(variant, pending[i]) :
      /\ Resume(i, "updateDone", resp, updateResumed(books, pending[i], resp))
      /\ UNCHANGED remote

DeleteDone ==
  \E i \in InFlight("delete"), resp \in DeleteResponses :
    /\ Resume(i, "deleteDone", resp, deleteResumed(books, pending[i], resp))
    /\ UNCHANGED remote

\* fetchBooks after `await fetch(API_BASE + '?_limit=10')`: whether its
\* catch block runs (fetch rejected, `throw new Error('Falha ao carregar
\* livros')`, or res.json() / data.map threw)
fetchCaught(resp) ==
  \/ resp.net = "reject"
  \/ variant = "script" /\ ~resp.ok
  \/ ~resp.json

\* ... and the array it leaves, run on the array bs: `books = data.map(...)`
\* with mapped the value of data.map(...)
fetchResumed(bs, resp, mapped) == IF fetchCaught(resp) THEN bs ELSE mapped

FetchDone ==
  \E i \in InFlight("fetch"), resp \in FetchResponses :
    LET op == pending[i]
        caught == fetchCaught(resp)
    IN  /\ books' \in { fetchResumed(books, resp, mapped) :
                          mapped \in MappedLists(variant, resp.list) }
           \* main: the render waits for the 50 ms timer; script: renderBooks()
        /\ pending' = (IF ~caught /\ variant = "main"
                       THEN [pending EXCEPT ![i].kind = "timer"]
                       ELSE Without(pending, i))
        /\ last' = Did("fetchDone", op, resp,
                       IF caught THEN "rollback" ELSE "commit",
                       IF caught /\ variant = "script" THEN "error" ELSE "none")
           \* finally: script setLoading(false); main hideLoading(), which
           \* on the success path comes after the timer
        /\ loading' = (IF variant = "script" THEN FALSE ELSE loading)
        /\ hiding' = (IF caught THEN hideLoading(hiding) ELSE hiding)
        /\ UNCHANGED <<variant, clock, storage, started, remote, livros>>

\* fetchBooks (main) after `await new Promise(r => setTimeout(r, 50))`
FetchTimer ==
  \E i \in InFlight("timer") :
    /\ storage' = renderBooks(variant, books, storage)
    /\ pending' = Without(pending, i)
    /\ last' = Did("fetchTimer", pending[i], NoResp, "commit", "none")
    /\ hiding' = hideLoading(hiding)
    /\ UNCHANGED <<variant, books, clock, started, remote, livros, loading>>

\* The callback of hideLoading's setTimeout: loading.style.display = 'none'
HideTimer ==
  /\ hiding > 0
  /\ loading' = FALSE
  /\ hiding' = hiding - 1
  /\ UNCHANGED <<variant, books, pending, clock, storage, started, remote,
                 last, livros>>

----------------------------------------------------------------------------

Next ==
  \/ SubmitNew
  \/ SubmitEdit
  \/ ClickDelete
  \/ CreateDone
  \/ UpdateDone
  \/ DeleteDone
  \/ FetchDone
  \/ FetchTimer
  \/ HideTimer

Spec == Init /\ [][Next]_vars

----------------------------------------------------------------------------
(* Three requests in flight.  The page is taken up at the moment the        *)
(* initial GET has failed and one book was submitted at clock 1; from       *)
(* there creates and deletes run as in Next, with room for one request      *)
(* more than MaxStarted                                                     *)

RaceData == FormData(variant, T_abc, RawAuthor, RawBody, Y_2020, G_terror)
RaceOp == Op("create", -1, -1, EmptyObject, RaceData, <<>>)

InitRace ==
  /\ variant \in {"main", "script"}
  /\ books = <<Spread([EmptyObject EXCEPT !.id = -1], RaceData)>>
  /\ storage = renderBooks(variant, books, NoItem)
  /\ pending = <<RaceOp>>
  /\ clock = 1
  /\ started = 1
  /\ remote = MaxFetched + 1
  /\ last = Did("createStart", RaceOp, NoResp, "none",
                IF variant = "main" THEN "none" ELSE "info")
  /\ livros = <<>>
     \* main: handleCreate's showLoading(); script: setLoading(false) of the
     \* failed fetchBooks
  /\ loading = (variant = "main")
  /\ hiding = 0

RaceRun(left) ==
  /\ left.sends => started < MaxStarted + 1
  /\ books' = left.books
  /\ storage' = left.storage
  /\ pending' = left.pending
  /\ started' = left.started
  /\ clock' = left.clock
  /\ last' = left.last
  /\ loading' = left.loading
  /\ UNCHANGED <<variant, remote, livros, hiding>>

RaceSubmitNew ==
  \E f \in Fillings(variant), now \in clock..MaxClock :
    RaceRun(submit(NoField, f[1], f[2], f[3], now))

\* 'Excluir' of one of the cards shown
RaceClickDelete == \E id \in IdsInStore : RaceRun(handleDelete(id))

NextRace ==
  RaceSubmitNew \/ RaceClickDelete \/ CreateDone \/ DeleteDone \/ HideTimer

SpecRace == InitRace /\ [][NextRace]_vars

----------------------------------------------------------------------------
(* The page left to itself.  Every request is answered or rejected in the   *)
(* end, and every timer runs; the user is free to do nothing more           *)

Answered == CreateDone \/ UpdateDone \/ DeleteDone \/ FetchDone

SpecLoading ==
  /\ Spec
  /\ WF_vars(Answered)
  /\ WF_vars(FetchTimer)
  /\ WF_vars(HideTimer)

----------------------------------------------------------------------------
(* catalogo.js: the catalogue page.  It reads the 'livros' slot that the    *)
(* main page writes, in whatever shape it finds there.                      *)
(*                                                                          *)
(* A text is a sequence of strings, the number n is NumberValue(n), null    *)
(* is Null and undefined is Undef.  An element of a parsed array is an      *)
(* object, with its own fields, or a value that is no object.               *)

Null == <<"null">>
NumberValue(n) == <<"#">> \o NumberText(n)

NoFields == [k \in {} |-> Undef]
Object(fields) == [type |-> "object", fields |-> fields]
NotObject(type) == [type |-> type, fields |-> NoFields]
JsNull == NotObject("null")

\* raw.k
Get(raw, k) == IF k \in DOMAIN raw.fields THEN raw.fields[k] ELSE Undef

\* a ?? b
Coalesce(a, b) == IF a = Undef \/ a = Null THEN b ELSE a

SemTitulo == <<"Titulo sem nome">>
SemAutor == <<"Autor desconhecido">>
SemGenero == <<"Outros">>
SemAno == <<"-">>
SemDescricao == <<>>

\* normalizarLivro that reads each field under its English name only
normalizarLivroSoIngles(raw) ==
  IF raw.type # "object" THEN JsNull
  ELSE Object(
    [id        |-> Coalesce(Get(raw, "id"), Coalesce(Get(raw, "ID"), Null)),
     titulo    |-> Coalesce(Get(raw, "title"), SemTitulo),
     autor     |-> Coalesce(Get(raw, "author"), SemAutor),
     genero    |-> Coalesce(Get(raw, "genre"), SemGenero),
     ano       |-> Coalesce(Get(raw, "year"), SemAno),
     descricao |-> Coalesce(Get(raw, "body"), SemDescricao)])

\* normalizarLivro that tries the English name of each field first
normalizarLivroInglesPrimeiro(raw) ==
  IF raw.type # "object" THEN JsNull
  ELSE Object(
    [id        |-> Coalesce(Get(raw, "id"), Coalesce(Get(raw, "ID"), Null)),
     titulo    |-> Coalesce(Get(raw, "title"),
                     Coalesce(Get(raw, "titulo"), SemTitulo)),
     autor     |-> Coalesce(Get(raw, "author"),
                     Coalesce(Get(raw, "autor"), SemAutor)),
     genero    |-> Coalesce(Get(raw, "genre"),
                     Coalesce(Get(raw, "genero"),
                       Coalesce(Get(raw, "tipo"), SemGenero))),
     ano       |-> Coalesce(Get(raw, "year"),
                     Coalesce(Get(raw, "ano"),
                       Coalesce(Get(raw, "publicationYear"), SemAno))),
     descricao |-> Coalesce(Get(raw, "body"),
                     Coalesce(Get(raw, "descricao"),
                       Coalesce(Get(raw, "description"), SemDescricao)))])

\* normalizarLivro(raw): null for what is no object
normalizarLivro(raw) ==
  IF raw.type # "object" THEN JsNull
  ELSE Object(
    [id        |-> Coalesce(Get(raw, "id"), Coalesce(Get(raw, "ID"), Null)),
     titulo    |-> Coalesce(Get(raw, "titulo"),
                     Coalesce(Get(raw, "title"), SemTitulo)),
     autor     |-> Coalesce(Get(raw, "autor"),
                     Coalesce(Get(raw, "author"), SemAutor)),
     genero    |-> Coalesce(Get(raw, "genero"),
                     Coalesce(Get(raw, "genre"),
                       Coalesce(Get(raw, "tipo"), SemGenero))),
     ano       |-> Coalesce(Get(raw, "ano"),
                     Coalesce(Get(raw, "year"),
                       Coalesce(Get(raw, "publicationYear"), SemAno))),
     descricao |-> Coalesce(Get(raw, "descricao"),
                     Coalesce(Get(raw, "body"),
                       Coalesce(Get(raw, "description"), SemDescricao)))])

\* normalizarLista(rawList): .map(normalizarLivro).filter(Boolean)
normalizarLista(rawList) ==
  SelectSeq([i \in 1..Len(rawList) |-> normalizarLivro(rawList[i])],
            LAMBDA n : n # JsNull)

MockCount == 8
MockBaseYear == 2010
MockYears == 14

\* generos[i % generos.length] and 2010 + (i % 14), for the 0-based index i
GeneroOf(i) == GenerosValidos[(i % Len(GenerosValidos)) + 1]
AnoOf(i) == NumberValue(MockBaseYear + (i % MockYears))

\* gerarMockLivros()
gerarMockLivros ==
  [n \in 1..MockCount |->
     Object([id        |-> <<"mock-">> \o NumberText(n),
             titulo    |-> <<"Livro Exemplo ">> \o NumberText(n),
             autor     |-> <<"Autor Exemplo ">> \o NumberText(n),
             genero    |-> GeneroOf(n - 1),
             ano       |-> AnoOf(n - 1),
             descricao |-> <<"Descricao de exemplo para este livro.">>])]

\* The 'livros' slot as catalogo.js finds it: never written ("missing"),
\* the empty text, a text JSON.parse rejects, JSON that is no array, or an
\* array
Slot(kind, list) == [kind |-> kind, list |-> list]

\* What carregarLivrosLocal() returns: null, or the normalized list
Carregado(list) == [null |-> list = <<>>, list |-> list]

\* carregarLivrosLocal()
carregarLivrosLocal(slot) ==
  IF slot.kind # "array" THEN Carregado(<<>>)
  ELSE Carregado(normalizarLista(slot.list))

\* The names under which a stored book can carry each of its fields
AliasGroups ==
  { {"id", "ID"}, {"titulo", "title"}, {"autor", "author"},
    {"genero", "genre", "tipo"}, {"ano", "year", "publicationYear"},
    {"descricao", "body", "description"} }

\* What a stored object can hold under the key k: nothing, null, the empty
\* text, or a text of its own
Held(k, how) ==
  CASE how = "null" -> Null
    [] how = "empty" -> <<>>
    [] OTHER -> <<"value of ", k>>

\* The objects that hold the keys of one group, each in each of the ways
GroupObjects(keys) ==
  { Object([k \in { q \in keys : hows[q] # "absent" } |-> Held(k, hows[k])]) :
      hows \in [keys -> {"absent", "null", "empty", "own"}] }

\* A book as the main page stores it
StoredByMain ==
  Object([id |-> NumberValue(1), title |-> <<"qui">>, body |-> <<"et">>,
          author |-> <<"Desconhecido">>, genre |-> GenerosValidos[1],
          year |-> NumberValue(BaseYear)])

RawObjects == UNION { GroupObjects(g) : g \in AliasGroups } \cup {StoredByMain}

StoredLists ==
  { <<>>, <<JsNull>>, <<NotObject("string")>>, <<JsNull, StoredByMain>>,
    <<StoredByMain, Object(NoFields)>> }
  \cup { <<raw>> : raw \in RawObjects }

Slots ==
  { Slot(kind, <<>>) : kind \in {"missing", "empty text", "unparsable", "no array"} }
  \cup { Slot("array", list) : list \in StoredLists }

\* GET /posts?_limit=12: the posts the remote resource answers with
Post(i) ==
  Object([userId |-> NumberValue(1), id |-> NumberValue(i),
          title |-> <<"qui">>, body |-> <<"et">>])

\* An answer to the catalogue's GET: whether fetch() resolved, whether
\* r.json() gives a value, whether that value is an array, and the array
Answer(net, json, array, list) ==
  [net |-> net, ok |-> net = "response" /\ json /\ array, json |-> json,
   array |-> array, list |-> list]

\* The request is rejected; the answer is an error page (no JSON), or an
\* error object (JSON, no array); or it is the list of posts
CatalogoResponses ==
  { Answer("reject", FALSE, FALSE, <<>>), Answer("response", FALSE, FALSE, <<>>),
    Answer("response", TRUE, FALSE, <<>>) }
  \cup { Answer("response", TRUE, TRUE, [i \in 1..n |-> Post(i)]) :
           n \in 0..(MaxFetched + 1) }

\* data.map((item, i) => ({ id: item.id, titulo: item.title, ... }))
MapPosts(data) ==
  [n \in 1..Len(data) |->
     Object([id        |-> Get(data[n], "id"),
             titulo    |-> Get(data[n], "title"),
             autor     |-> <<"Autor ">> \o NumberText(n),
             genero    |-> GeneroOf(n - 1),
             ano       |-> AnoOf(n - 1),
             descricao |-> Get(data[n], "body")])]

\* The catalogue page before its last line, initCatalogo(), has run
InitCatalogoPage ==
  /\ variant = "catalogo"
  /\ storage \in Slots
  /\ books = <<>>
  /\ livros = <<>>
  /\ pending = <<>>
  /\ clock = 1
  /\ started = 0
  /\ remote = MaxFetched + 1
  /\ last = Did("catalogoLoad", NoOp, NoResp, "none", "none")
  /\ loading = FALSE
  /\ hiding = 0

\* initCatalogo(), to its return or to the fetch it leaves behind
initCatalogo ==
  /\ last.step = "catalogoLoad"
  /\ LET salvos == carregarLivrosLocal(storage)
     IN  IF ~salvos.null
         THEN /\ livros' = salvos.list
              /\ last' = Did("catalogoLocal", NoOp, NoResp, "commit", "none")
              /\ UNCHANGED <<pending, started>>
         ELSE /\ pending' = <<Op("catalogo", NoId, -1, EmptyObject,
                                 EmptyObject, <<>>)>>
              /\ started' = started + 1
              /\ last' = Did("catalogoFetch", NoOp, NoResp, "none", "none")
              /\ UNCHANGED livros
  /\ UNCHANGED <<variant, books, clock, storage, remote, loading, hiding>>

\* .then(r => r.json()).then(data => ...): the posts are mapped, normalized
\* and shown
CatalogoFetched ==
  \E i \in InFlight("catalogo"), resp \in CatalogoResponses :
    /\ resp.net = "response" /\ resp.json /\ resp.array
    /\ livros' = normalizarLista(MapPosts(resp.list))
    /\ pending' = Without(pending, i)
    /\ last' = Did("catalogoRemote", pending[i], resp, "commit", "none")
    /\ UNCHANGED <<variant, books, clock, storage, started, remote, loading,
                   hiding>>

\* .catch(err => ...): fetch rejected, r.json() threw, or data.map is not a
\* function; the mock books are shown
CatalogoFailed ==
  \E i \in InFlight("catalogo"), resp \in CatalogoResponses :
    /\ ~(resp.net = "response" /\ resp.json /\ resp.array)
    /\ livros' = gerarMockLivros
    /\ pending' = Without(pending, i)
    /\ last' = Did("catalogoMock", pending[i], resp, "rollback", "none")
    /\ UNCHANGED <<variant, books, clock, storage, started, remote, loading,
                   hiding>>

NextCatalogo == initCatalogo \/ CatalogoFetched \/ CatalogoFailed

SpecCatalogo == InitCatalogoPage /\ [][NextCatalogo]_vars

----------------------------------------------------------------------------
(* Vocabulary of the properties *)

\* The positions of the records with identity id
Holding(bs, id) == { i \in 1..Len(bs) : ~IsHole(bs[i]) /\ bs[i].id = id }

Count(bs, id) == Cardinality(Holding(bs, id))

Least(S) == CHOOSE i \in S : \A j \in S : i <= j

\* findByIdentity(id): the first record with that identity, if any
Found(bs, id) == Holding(bs, id) # {}
Lookup(bs, id) == bs[Least(Holding(bs, id))]

\* The gateway call resolved with a success status / failed (transport
\* failure or non-success status)
Succeeded(resp) == resp.net = "response" /\ resp.ok
Failed(resp) == resp.net = "reject" \/ (resp.net = "response" /\ ~resp.ok)

Completed(kind) == last.step = kind \o "Done"

\* How many times record b occurs in the array
Occurrences(bs, b) == Cardinality({ i \in 1..Len(bs) : bs[i] = b })

SameRecords(as, bs) ==
  /\ Len(as) = Len(bs)
  /\ \A i \in 1..Len(as) : Occurrences(as, as[i]) = Occurrences(bs, as[i])

IsPlaceholder(id) == id < 0

----------------------------------------------------------------------------
(* C1..C10 *)

\* C1: once the create call of an operation resolved successfully with
\* server identity S, the store holds exactly one record with identity S
\* and none with the placeholder identity of that operation.
C1_CreateCommitsServerIdentity ==
  (Completed("create") /\ Succeeded(last.resp))
    => /\ Count(books, last.resp.body.id) = 1
       /\ Count(books, last.op.id) = 0

\* C2: once the create call failed, the store equals, by value and order,
\* the store as it was immediately before handleCreate began.
C2_CreateFailureRestoresStore ==
  (Completed("create") /\ Failed(last.resp)) => books = last.op.pre

\* C3: once the update call on identity X failed, looking up X gives a
\* record equal to the one X had immediately before handleUpdate began.
C3_UpdateFailureRestoresRecord ==
  (Completed("update") /\ Failed(last.resp))
    => /\ Found(books, last.op.id)
       /\ Lookup(books, last.op.id) = last.op.saved

\* C4: once the delete call failed, the records of the store (ignoring
\* order, counting duplicates) are those it had before handleDelete began.
C4_DeleteFailureRestoresRecords ==
  (Completed("delete") /\ Failed(last.resp)) => SameRecords(books, last.op.pre)

\* C5: in every reachable state no two records of the store have the same
\* identity.
C5_IdentitiesUnique ==
  \A i, j \in 1..Len(books) :
    (i # j /\ ~IsHole(books[i]) /\ ~IsHole(books[j]) /\ books[i].id # NoId)
      => books[i].id # books[j].id

\* C6: in every state where no create is pending, the store holds no
\* record with a placeholder identity.
C6_PlaceholderOnlyWhileCreatePending ==
  InFlight("create") = {}
    => \A i \in 1..Len(books) : ~IsHole(books[i]) => ~IsPlaceholder(books[i].id)

\* C7: a gateway answer with a non-success status is handled like a
\* transport failure: the operation is rolled back and an error is shown.
C7_ErrorStatusIsFailure ==
  ((Completed("create") \/ Completed("update") \/ Completed("delete"))
     /\ last.resp.net = "response" /\ ~last.resp.ok)
    => last.path = "rollback" /\ last.notify = "error"

\* The store still shows the optimistic mutation of operation op
ShowsOptimistic(bs, op) ==
  CASE op.kind = "create" -> Count(bs, op.id) > 0
    [] op.kind = "update" ->
         /\ Spread(op.saved, op.data) # op.saved
         /\ Found(bs, op.id)
         /\ Lookup(bs, op.id) = Spread(op.saved, op.data)
    [] op.kind = "delete" -> Count(bs, op.id) = 0
    [] OTHER -> FALSE

\* C8: when the gateway call failed and the error is shown, the store no
\* longer shows the optimistic mutation of that operation.
C8_ErrorShownAfterRollback ==
  ((Completed("create") \/ Completed("update") \/ Completed("delete"))
     /\ Failed(last.resp) /\ last.notify = "error")
    => ~ShowsOptimistic(books, last.op)

\* A filling <<title, year, genre>> of the form that fails validation: the
\* trimmed title has fewer than 3 characters; in the main variant also a
\* year that is not exactly four digits, or a blank genre
FailsValidation(v, f) ==
  \/ Len(Trim(f[1])) < 3
  \/ v = "main" /\ \/ Len(Trim(f[2])) # 4
                   \/ \E i \in 1..Len(Trim(f[2])) : Trim(f[2])[i] \notin Digits
                   \/ Trim(f[3]) = <<>>

\* The handler left the store as it was and sent no request
NothingDone(left) ==
  /\ left.books = books
  /\ left.pending = pending
  /\ left.started = started
  /\ left.storage = storage
  /\ ~left.sends

\* C9: a form submission that fails validation leaves the store unchanged
\* and issues no network request, with the id field empty (create path) or
\* set (update path).
C9_InvalidSubmitChangesNothing ==
  \A idField \in Ids \cup {Unused, NoField}, f \in Fillings(variant),
     now \in clock..MaxClock :
    FailsValidation(variant, f)
      => NothingDone(submit(idField, f[1], f[2], f[3], now))

\* An invalid form was submitted while the store held books and a create
\* was in flight
C9_Witness ==
  last.step = "submitInvalid" /\ books # <<>> /\ InFlight("create") # {}

\* C10: an update or delete whose identity is absent from the store leaves
\* the store unchanged and issues no network request.
C10_AbsentIdentityChangesNothing ==
  \A id \in Ids \cup {Unused} :
    Count(books, id) = 0
      => /\ NothingDone(handleDelete(id))
         /\ \A f \in Fillings(variant) :
              NothingDone(submit(id, f[1], f[2], f[3], clock))

\* An update or delete of an absent identity was attempted on a store that
\* holds books
C10_Witness ==
  last.step \in {"updateNotFound", "deleteNotFound"} /\ books # <<>>

----------------------------------------------------------------------------
(* C11..C20 *)

\* C11: every update or delete whose identity is absent from the store
\* shows an error notification before the handler returns, in both variants.
C11_AbsentIdentityReported ==
  last.step \in {"updateNotFound", "deleteNotFound"} => last.notify = "error"

\* The record handleCreate put into the array for the operation op
OptimisticBook(op) == Spread([EmptyObject EXCEPT !.id = op.id], op.data)

\* While the create pending[c] is in flight, the delete pending[d] took its
\* record out of the array, and the record is still out
RemovedByDelete(c, d) ==
  /\ pending[c].kind = "create" /\ pending[d].kind = "delete"
  /\ c < d
  /\ pending[d].saved = OptimisticBook(pending[c])
  /\ \A i \in 1..Len(books) : books[i] # OptimisticBook(pending[c])

\* C12: when a delete removed the optimistic record of a create that is in
\* flight, the completion of the create leaves the array as it is, on
\* success (commit) and on failure (rollback) alike.
C12_CreateCompletionAfterDeleteIsNoOp ==
  \A c, d \in 1..Len(pending) :
    RemovedByDelete(c, d)
      => \A resp \in CreateResponses(variant, remote) :
           createResumed(books, pending[c], resp).books = books

\* Every record of `before` whose identity is not id is in `after` as often
\* as it was, with the same fields
OthersKept(before, after, id) ==
  \A i \in 1..Len(before) :
    (~IsHole(before[i]) /\ before[i].id # id)
      => Occurrences(after, before[i]) >= Occurrences(before, before[i])

\* C13: the completion (commit or rollback) of an update or delete on
\* identity X leaves every record whose identity is not X in the array,
\* with its fields as they were, whatever ran while the request was in
\* flight.
C13_CompletionTouchesOnlyItsRecord ==
  /\ \A i \in InFlight("update") :
       \A resp \in UpdateResponses(variant, pending[i]) :
         OthersKept(books, updateResumed(books, pending[i], resp).books,
                    pending[i].id)
  /\ \A i \in InFlight("delete") :
       \A resp \in DeleteResponses :
         OthersKept(books, deleteResumed(books, pending[i], resp).books,
                    pending[i].id)

\* The record b shows every field of the submitted data
ShowsData(b, data) == Spread(b, data) = b

\* The array once the update first and then the update then have completed
\* on the answers r1 and r2
BothCompleted(first, r1, then, r2) ==
  updateResumed(updateResumed(books, first, r1).books, then, r2).books

\* C14: of two updates of one identity that are in flight together, the one
\* whose request completes last decides the record: its submitted fields
\* when it succeeded, the record it had found when it failed.
C14_LastCompletionWins ==
  \A i, j \in InFlight("update") :
    (i # j /\ pending[i].id = pending[j].id)
      => \A r1 \in UpdateResponses(variant, pending[i]),
            r2 \in UpdateResponses(variant, pending[j]) :
           LET final == BothCompleted(pending[i], r1, pending[j], r2)
               X == pending[j].id
           IN  /\ Found(final, X)
               /\ IF Succeeded(r2)
                  THEN ShowsData(Lookup(final, X), pending[j].data)
                  ELSE Lookup(final, X) = pending[j].saved

\* The last step ended with a call of renderBooks(): every handler renders
\* before its await, fetchBooks after its timer, and every catch block
\* after its rollback
Rendered ==
  \/ last.step \in {"createStart", "updateStart", "deleteStart", "fetchTimer"}
  \/ /\ last.step \in {"createDone", "updateDone", "deleteDone"}
     /\ last.path = "rollback"

\* C15: in the main variant, after every render pass the snapshot in the
\* 'livros' slot reads back as the array's full current contents, the
\* empty array included.
C15_SnapshotEqualsStoreAfterRender ==
  (variant = "main" /\ Rendered) => ParseLivros(storage) = books

\* C16: when the submit handler has started a create and waits for the
\* answer, the array holds the new record first, with a negative
\* placeholder identity and the submitted fields, and after it the records
\* it held before, unchanged and in their order.
C16_OptimisticInsertAtFront ==
  \A f \in Fillings(variant), now \in clock..MaxClock :
    FormValid(variant, f[1], f[2], f[3])
      => LET data == FormData(variant, f[1], RawAuthor, RawBody, f[2], f[3])
             after == submit(NoField, f[1], f[2], f[3], now).books
         IN  /\ Len(after) = Len(books) + 1
             /\ IsPlaceholder(after[1].id)
             /\ after[1] = [data EXCEPT !.id = after[1].id]
             /\ Tail(after) = books

\* A create was started on an array that held a book already
C16_Witness ==
  /\ last.step = "createStart"
  /\ Len(books) >= 2
  /\ books = <<OptimisticBook(last.op)>> \o last.op.pre

\* The objects of the array found in the 'livros' slot
StoredObjects ==
  { storage.list[i] : i \in { j \in 1..Len(storage.list) :
                                storage.list[j].type = "object" } }

\* C17: normalizarLivro is idempotent: normalizing a normalized book gives
\* the same id, titulo, autor, genero, ano and descricao again.
C17_NormalizarLivroIdempotent ==
  /\ \A x \in StoredObjects :
       normalizarLivro(normalizarLivro(x)) = normalizarLivro(x)
  /\ last.step \in {"catalogoLocal", "catalogoRemote"}
       => \A i \in 1..Len(livros) : normalizarLivro(livros[i]) = livros[i]

\* The catalogue shows a stored book that carried its title as `title`
\* and that normalizarLivro had to rewrite
C17_Witness ==
  /\ last.step = "catalogoLocal"
  /\ \E x \in StoredObjects :
       /\ Get(x, "title") = Held("title", "own")
       /\ normalizarLivro(x) # x
       /\ livros = <<normalizarLivro(x)>>

\* The value of the first of the keys that raw holds (neither missing nor
\* null), or the default when it holds none of them
RECURSIVE FirstPresent(_, _, _)
FirstPresent(raw, keys, default) ==
  IF keys = <<>> THEN default
  ELSE IF Get(raw, Head(keys)) \notin {Undef, Null} THEN Get(raw, Head(keys))
  ELSE FirstPresent(raw, Tail(keys), default)

Defaults ==
  [titulo |-> SemTitulo, autor |-> SemAutor, genero |-> SemGenero,
   ano |-> SemAno, descricao |-> SemDescricao]

\* English name first
EnglishFirst ==
  [titulo |-> <<"title", "titulo">>, autor |-> <<"author", "autor">>,
   genero |-> <<"genre", "genero", "tipo">>,
   ano |-> <<"year", "ano", "publicationYear">>,
   descricao |-> <<"body", "descricao", "description">>]

\* Canonical (Portuguese) name first
CanonicalFirst ==
  [titulo |-> <<"titulo", "title">>, autor |-> <<"autor", "author">>,
   genero |-> <<"genero", "genre", "tipo">>,
   ano |-> <<"ano", "year", "publicationYear">>,
   descricao |-> <<"descricao", "body", "description">>]

\* The book the catalogue shows for the i-th element of the stored array
\* (the elements that are no objects are filtered out)
ShownOf(i) ==
  livros[Cardinality({ j \in 1..i : storage.list[j].type = "object" })]

\* Once the catalogue shows the stored array, every book shown has, in each
\* canonical field, the first present alias of the stored object in the
\* given order
ResolvedIn(order) ==
  last.step = "catalogoLocal"
    => \A i \in 1..Len(storage.list), f \in DOMAIN order :
         storage.list[i].type = "object"
           => ShownOf(i).fields[f]
                = FirstPresent(storage.list[i], order[f], Defaults[f])

\* C18 as claimed: each field is resolved from its aliases with the English
\* name first (title then titulo, author then autor, genre then genero then
\* tipo, year then ano then publicationYear, body then descricao then
\* description), the default when none is present.
C18_EnglishAliasFirst == ResolvedIn(EnglishFirst)

\* C18 as amended: each field is resolved with its canonical name first
\* (titulo then title, autor then author, genero then genre then tipo, ano
\* then year then publicationYear, descricao then body then description),
\* the default when none is present.
C18_CanonicalAliasFirst == ResolvedIn(CanonicalFirst)

\* The catalogue shows a stored book that carried two different titles,
\* one as `titulo` and one as `title`
C18_Witness ==
  /\ last.step = "catalogoLocal"
  /\ \E x \in StoredObjects :
       /\ Get(x, "titulo") = Held("titulo", "own")
       /\ Get(x, "title") = Held("title", "own")
       /\ livros = <<normalizarLivro(x)>>
       /\ livros[1].fields.titulo = Held("titulo", "own")

\* The 'livros' slot holds a usable list: it is there, it parses, it is an
\* array, and it has a book left after normalizing
Usable(slot) ==
  slot.kind = "array" /\ \E i \in 1..Len(slot.list) : slot.list[i].type = "object"

MockIds ==
  { <<"mock-", d>> : d \in {"1", "2", "3", "4", "5", "6", "7", "8"} }

\* initCatalogo has populated and rendered the catalogue
CatalogoShown == last.step \in {"catalogoLocal", "catalogoRemote", "catalogoMock"}

\* C19: with a usable list stored, the catalogue is its normalization and no
\* request is made; without one, the catalogue initCatalogo ends up showing
\* is non-empty: the normalized remote list when the fetch succeeded, else
\* the 8 mock books with the identities mock-1 .. mock-8.
C19_CatalogoPopulated ==
  /\ Usable(storage)
       => /\ started = 0 /\ pending = <<>>
          /\ CatalogoShown
               => last.step = "catalogoLocal" /\ livros = normalizarLista(storage.list)
  /\ ~Usable(storage)
       => /\ last.step # "catalogoLocal"
          /\ CatalogoShown => livros # <<>>
          /\ last.step = "catalogoRemote"
               => /\ last.resp.net = "response"
                  /\ livros = normalizarLista(MapPosts(last.resp.list))
          /\ last.step = "catalogoMock"
               => /\ Len(livros) = Cardinality(MockIds)
                  /\ { livros[i].fields.id : i \in 1..Len(livros) } = MockIds

\* The arrays the suspended handler op can leave when it is resumed on bs
ResumedOn(bs, op) ==
  CASE op.kind = "create" ->
         { createResumed(bs, op, r).books : r \in CreateResponses(variant, remote) }
    [] op.kind = "update" ->
         { updateResumed(bs, op, r).books : r \in UpdateResponses(variant, op) }
    [] op.kind = "delete" ->
         { deleteResumed(bs, op, r).books : r \in DeleteResponses }
    [] op.kind = "fetch" ->
         {bs} \cup UNION { MappedLists(variant, r.list) :
                             r \in { q \in FetchResponses : q.ok } }
    [] OTHER -> {bs}

\* The arrays that completing the suspended handlers pd, some or all and in
\* any order, can make of bs
RECURSIVE Outcomes(_, _)
Outcomes(bs, pd) ==
  {bs} \cup UNION { UNION { Outcomes(b, Without(pd, i)) : b \in ResumedOn(bs, pd[i]) } :
                     i \in 1..Len(pd) }

\* C20: once the delete of identity X is committed, no completion of a
\* request still in flight puts a record with identity X back into the
\* array, or leaves an empty slot or an empty object in it.
C20_DeletedStaysDeleted ==
  (Completed("delete") /\ Succeeded(last.resp))
    => \A bs \in Outcomes(books, pending) :
         /\ Count(bs, last.op.id) = 0
         /\ \A i \in 1..Len(bs) : ~IsHole(bs[i]) /\ bs[i] # EmptyObject

\* The array once the initial GET and the POST of the suspended create op
\* have both been answered, the GET by fr (mapped to `mapped`) and the POST
\* by cr, in the order given
FetchThenCreate(op, fr, mapped, cr) ==
  createResumed(fetchResumed(books, fr, mapped), op, cr).books

CreateThenFetch(op, fr, mapped, cr) ==
  fetchResumed(createResumed(books, op, cr).books, fr, mapped)

\* C21: a book created while the initial GET of fetchBooks is in flight is
\* in the array, under the identity the server gave it, once the GET and
\* the POST have both succeeded, whichever is answered first.
C21_CreateDuringFetchKept ==
  \A i \in InFlight("fetch"), j \in InFlight("create") :
    \A fr \in FetchResponses, cr \in CreateResponses(variant, remote) :
      (Succeeded(fr) /\ fr.json /\ Succeeded(cr) /\ cr.json)
        => \A mapped \in MappedLists(variant, fr.list) :
             /\ Found(FetchThenCreate(pending[j], fr, mapped, cr), cr.body.id)
             /\ Found(CreateThenFetch(pending[j], fr, mapped, cr), cr.body.id)

\* Every handler has returned and no request or 50 ms timer is waited for
Idle == pending = <<>>

\* C22 (main page): whenever every call of fetchBooks, handleCreate,
\* handleUpdate and handleDelete has returned and nothing is in flight, the
\* loading indicator is hidden then or some time later.
C22_LoadingEventuallyHidden ==
  (variant = "main" /\ Idle) ~> ~loading

\* C22, the state it forbids: nothing in flight, no hideLoading timer set,
\* and the indicator shown; nothing will hide it unless the user acts again
C22_LoadingHiddenWhenSettled ==
  (variant = "main" /\ Idle /\ hiding = 0) => ~loading

====
